---- MODULE Spec2Model ----
(***************************************************************************)
(* MediaProperties (packages/@webex/plugin-meetings/src/media/properties.ts)*)
(* as a state machine: the attribute setters and unsetters, the bounded    *)
(* wait on the media connection, and getCurrentConnectionType.             *)
(***************************************************************************)
EXTENDS Integers, Sequences, FiniteSets, TLC

\* ------------------------------------------------------------------ bounds
NumConns == 2      \* media connection objects the host may hand over
MaxCalls == 1      \* calls of waitForMediaConnectionConnected / getCurrentConnectionType
MaxReports == 2    \* reports in one getStats() result

\* ------------------------------------------------------------------ values
Null == "null"
Undefined == "undefined"
Streams == {"stream1"}
\* The connection objects, named "conn1", "conn2", ...
Conns == {"conn" \o ToString(i) : i \in 1..NumConns}
Calls == 1..MaxCalls

\* JavaScript truthiness of the values the model uses ("" is the empty string).
Truthy(v) == v \notin {Null, Undefined, ""}

\* JavaScript a || b
JsOr(a, b) == IF Truthy(a) THEN a ELSE b

NoDirection ==
  [receiveAudio |-> FALSE, receiveVideo |-> FALSE, receiveShare |-> FALSE,
   sendAudio |-> FALSE, sendVideo |-> FALSE, sendShare |-> FALSE]

\* Every flag set at once: sending and receiving a share together is one of the
\* contradictory combinations nothing rejects.
ContradictoryDirection ==
  [receiveAudio |-> TRUE, receiveVideo |-> TRUE, receiveShare |-> TRUE,
   sendAudio |-> TRUE, sendVideo |-> TRUE, sendShare |-> TRUE]

Directions == {NoDirection, ContradictoryDirection}

QualityLevels == {"HIGH", "LOW"}
DeviceIds == {"device1"}
SettingTypes == {"video"}
SettingValues == {"settings1"}

VARIABLES
  \* fields of MediaProperties
  audioStream, mediaDirection, mediaSettings, webrtcMediaConnection,
  remoteAudioStream, remoteQualityLevel, remoteShare, remoteVideoStream,
  shareVideoStream, shareAudioStream, videoDeviceId, videoStream,
  remoteShareStream,   \* the undeclared field unsetRemoteShareStream writes
  \* the media connections (the wrapped library's objects)
  connectionState,     \* connectionState[c]: what c.getConnectionState() returns
  listeners,           \* listeners[c]: calls whose connectionStateListener is on c
  \* the calls of waitForMediaConnectionConnected / getCurrentConnectionType
  kind,                \* "none" | "wait" | "type"
  promise,             \* the promise of waitForMediaConnectionConnected
  timer,               \* the PC_BAIL_TIMEOUT timer of the call
  pc,                  \* position of the async getCurrentConnectionType
  result,              \* what getCurrentConnectionType settled with
  allStatsReports,     \* the local array of getCurrentConnectionType
  statsOutcome,        \* "none" | "invoked" | "resolved" | "rejected" | "threw"
  observedConnected,   \* isConnected() returned true to this call
  lastOp               \* the operation that ran last

attrVars ==
  <<audioStream, mediaDirection, mediaSettings, webrtcMediaConnection,
    remoteAudioStream, remoteQualityLevel, remoteShare, remoteVideoStream,
    shareVideoStream, shareAudioStream, videoDeviceId, videoStream,
    remoteShareStream>>

connVars == <<connectionState, listeners>>

callVars ==
  <<kind, promise, timer, pc, result, allStatsReports, statsOutcome,
    observedConnected>>

vars == <<attrVars, connVars, callVars, lastOp>>

\* ------------------------------------------------------------- constructor
Init ==
  /\ webrtcMediaConnection = Null
  /\ mediaDirection = NoDirection
  /\ videoStream = Null
  /\ audioStream = Null
  /\ shareVideoStream = Null
  /\ shareAudioStream = Null
  /\ remoteShare = Undefined
  /\ remoteAudioStream = Undefined
  /\ remoteVideoStream = Undefined
  /\ remoteQualityLevel = "HIGH"
  /\ mediaSettings = [t \in SettingTypes |-> Undefined]
  /\ videoDeviceId = Null
  /\ remoteShareStream = Undefined
  /\ connectionState = [c \in Conns |-> "New"]
  /\ listeners = [c \in Conns |-> {}]
  /\ kind = [w \in Calls |-> "none"]
  /\ promise = [w \in Calls |-> "none"]
  /\ timer = [w \in Calls |-> "none"]
  /\ pc = [w \in Calls |-> "none"]
  /\ result = [w \in Calls |-> "none"]
  /\ allStatsReports = [w \in Calls |-> <<>>]
  /\ statsOutcome = [w \in Calls |-> "none"]
  /\ observedConnected = [w \in Calls |-> FALSE]
  /\ lastOp = "constructor"

\* ------------------------------------------------- setters and unsetters
getVideoDeviceId == JsOr(videoDeviceId, Null)

setMediaDirection(d) ==
  /\ mediaDirection' = d
  /\ lastOp' = "setMediaDirection"
  /\ UNCHANGED <<audioStream, mediaSettings, webrtcMediaConnection,
                 remoteAudioStream, remoteQualityLevel, remoteShare,
                 remoteVideoStream, shareVideoStream, shareAudioStream,
                 videoDeviceId, videoStream, remoteShareStream>>
  /\ UNCHANGED <<connVars, callVars>>

setMediaSettings(type, values) ==
  /\ mediaSettings' = [mediaSettings EXCEPT ![type] = values]
  /\ lastOp' = "setMediaSettings"
  /\ UNCHANGED <<audioStream, mediaDirection, webrtcMediaConnection,
                 remoteAudioStream, remoteQualityLevel, remoteShare,
                 remoteVideoStream, shareVideoStream, shareAudioStream,
                 videoDeviceId, videoStream, remoteShareStream>>
  /\ UNCHANGED <<connVars, callVars>>

setMediaPeerConnection(mediaPeerConnection) ==
  /\ webrtcMediaConnection' = mediaPeerConnection
  /\ lastOp' = "setMediaPeerConnection"
  /\ UNCHANGED <<audioStream, mediaDirection, mediaSettings,
                 remoteAudioStream, remoteQualityLevel, remoteShare,
                 remoteVideoStream, shareVideoStream, shareAudioStream,
                 videoDeviceId, videoStream, remoteShareStream>>
  /\ UNCHANGED <<connVars, callVars>>

setLocalVideoStream(s) ==
  /\ videoStream' = s
  /\ lastOp' = "setLocalVideoStream"
  /\ UNCHANGED <<audioStream, mediaDirection, mediaSettings,
                 webrtcMediaConnection, remoteAudioStream, remoteQualityLevel,
                 remoteShare, remoteVideoStream, shareVideoStream,
                 shareAudioStream, videoDeviceId, remoteShareStream>>
  /\ UNCHANGED <<connVars, callVars>>

setLocalAudioStream(s) ==
  /\ audioStream' = s
  /\ lastOp' = "setLocalAudioStream"
  /\ UNCHANGED <<mediaDirection, mediaSettings, webrtcMediaConnection,
                 remoteAudioStream, remoteQualityLevel, remoteShare,
                 remoteVideoStream, shareVideoStream, shareAudioStream,
                 videoDeviceId, videoStream, remoteShareStream>>
  /\ UNCHANGED <<connVars, callVars>>

setLocalShareVideoStream(s) ==
  /\ shareVideoStream' = s
  /\ lastOp' = "setLocalShareVideoStream"
  /\ UNCHANGED <<audioStream, mediaDirection, mediaSettings,
                 webrtcMediaConnection, remoteAudioStream, remoteQualityLevel,
                 remoteShare, remoteVideoStream, shareAudioStream,
                 videoDeviceId, videoStream, remoteShareStream>>
  /\ UNCHANGED <<connVars, callVars>>

setLocalShareAudioStream(s) ==
  /\ shareAudioStream' = s
  /\ lastOp' = "setLocalShareAudioStream"
  /\ UNCHANGED <<audioStream, mediaDirection, mediaSettings,
                 webrtcMediaConnection, remoteAudioStream, remoteQualityLevel,
                 remoteShare, remoteVideoStream, shareVideoStream,
                 videoDeviceId, videoStream, remoteShareStream>>
  /\ UNCHANGED <<connVars, callVars>>

setRemoteQualityLevel(q) ==
  /\ remoteQualityLevel' = q
  /\ lastOp' = "setRemoteQualityLevel"
  /\ UNCHANGED <<audioStream, mediaDirection, mediaSettings,
                 webrtcMediaConnection, remoteAudioStream, remoteShare,
                 remoteVideoStream, shareVideoStream, shareAudioStream,
                 videoDeviceId, videoStream, remoteShareStream>>
  /\ UNCHANGED <<connVars, callVars>>

setRemoteShare(s) ==
  /\ remoteShare' = s
  /\ lastOp' = "setRemoteShare"
  /\ UNCHANGED <<audioStream, mediaDirection, mediaSettings,
                 webrtcMediaConnection, remoteAudioStream, remoteQualityLevel,
                 remoteVideoStream, shareVideoStream, shareAudioStream,
                 videoDeviceId, videoStream, remoteShareStream>>
  /\ UNCHANGED <<connVars, callVars>>

setRemoteAudioStream(s) ==
  /\ remoteAudioStream' = s
  /\ lastOp' = "setRemoteAudioStream"
  /\ UNCHANGED <<audioStream, mediaDirection, mediaSettings,
                 webrtcMediaConnection, remoteQualityLevel, remoteShare,
                 remoteVideoStream, shareVideoStream, shareAudioStream,
                 videoDeviceId, videoStream, remoteShareStream>>
  /\ UNCHANGED <<connVars, callVars>>

setRemoteVideoStream(s) ==
  /\ remoteVideoStream' = s
  /\ lastOp' = "setRemoteVideoStream"
  /\ UNCHANGED <<audioStream, mediaDirection, mediaSettings,
                 webrtcMediaConnection, remoteAudioStream, remoteQualityLevel,
                 remoteShare, shareVideoStream, shareAudioStream,
                 videoDeviceId, videoStream, remoteShareStream>>
  /\ UNCHANGED <<connVars, callVars>>

setVideoDeviceId(deviceId) ==
  /\ videoDeviceId' = deviceId
  /\ lastOp' = "setVideoDeviceId"
  /\ UNCHANGED <<audioStream, mediaDirection, mediaSettings,
                 webrtcMediaConnection, remoteAudioStream, remoteQualityLevel,
                 remoteShare, remoteVideoStream, shareVideoStream,
                 shareAudioStream, videoStream, remoteShareStream>>
  /\ UNCHANGED <<connVars, callVars>>

unsetPeerConnection ==
  /\ webrtcMediaConnection' = Null
  /\ lastOp' = "unsetPeerConnection"
  /\ UNCHANGED <<audioStream, mediaDirection, mediaSettings,
                 remoteAudioStream, remoteQualityLevel, remoteShare,
                 remoteVideoStream, shareVideoStream, shareAudioStream,
                 videoDeviceId, videoStream, remoteShareStream>>
  /\ UNCHANGED <<connVars, callVars>>

\* A slip of the kind the frame claim excludes: the share goes with the media.
unsetRemoteMedia_ClearsShare ==
  /\ remoteAudioStream' = Null
  /\ remoteVideoStream' = Null
  /\ remoteShare' = Null
  /\ lastOp' = "unsetRemoteMedia"
  /\ UNCHANGED <<audioStream, mediaDirection, mediaSettings,
                 webrtcMediaConnection, remoteQualityLevel,
                 shareVideoStream, shareAudioStream, videoDeviceId,
                 videoStream, remoteShareStream>>
  /\ UNCHANGED <<connVars, callVars>>

unsetRemoteMedia ==
  /\ remoteAudioStream' = Null
  /\ remoteVideoStream' = Null
  /\ lastOp' = "unsetRemoteMedia"
  /\ UNCHANGED <<audioStream, mediaDirection, mediaSettings,
                 webrtcMediaConnection, remoteQualityLevel, remoteShare,
                 shareVideoStream, shareAudioStream, videoDeviceId,
                 videoStream, remoteShareStream>>
  /\ UNCHANGED <<connVars, callVars>>

unsetRemoteShareStream ==
  /\ remoteShareStream' = Null
  /\ lastOp' = "unsetRemoteShareStream"
  /\ UNCHANGED <<audioStream, mediaDirection, mediaSettings,
                 webrtcMediaConnection, remoteAudioStream, remoteQualityLevel,
                 remoteShare, remoteVideoStream, shareVideoStream,
                 shareAudioStream, videoDeviceId, videoStream>>
  /\ UNCHANGED <<connVars, callVars>>

\* this.unsetRemoteMedia(); this.unsetRemoteShareStream();
unsetRemoteStreams ==
  /\ remoteAudioStream' = Null
  /\ remoteVideoStream' = Null
  /\ remoteShareStream' = Null
  /\ lastOp' = "unsetRemoteStreams"
  /\ UNCHANGED <<audioStream, mediaDirection, mediaSettings,
                 webrtcMediaConnection, remoteQualityLevel, remoteShare,
                 shareVideoStream, shareAudioStream, videoDeviceId,
                 videoStream>>
  /\ UNCHANGED <<connVars, callVars>>

\* !!(this.shareAudioStream || this.shareVideoStream) with && for ||
hasLocalShareStream_And == Truthy(shareAudioStream) /\ Truthy(shareVideoStream)

hasLocalShareStream == Truthy(JsOr(shareAudioStream, shareVideoStream))

\* Arguments the host passes for an optional local stream.
OptionalStream == Streams \cup {Null, Undefined}

AttributeOp ==
  \/ \E d \in Directions : setMediaDirection(d)
  \/ \E t \in SettingTypes, v \in SettingValues : setMediaSettings(t, v)
  \/ setMediaPeerConnection("conn1")
  \/ \E s \in Streams \cup {Null} : setLocalVideoStream(s)
  \/ \E s \in Streams \cup {Null} : setLocalAudioStream(s)
  \/ \E s \in OptionalStream : setLocalShareVideoStream(s)
  \/ \E s \in OptionalStream : setLocalShareAudioStream(s)
  \/ \E q \in QualityLevels : setRemoteQualityLevel(q)
  \/ \E s \in Streams : setRemoteShare(s)
  \/ \E s \in Streams : setRemoteAudioStream(s)
  \/ \E s \in Streams : setRemoteVideoStream(s)
  \/ \E id \in DeviceIds : setVideoDeviceId(id)
  \/ unsetPeerConnection
  \/ unsetRemoteMedia
  \/ unsetRemoteShareStream
  \/ unsetRemoteStreams

SpecAttrs == Init /\ [][AttributeOp]_vars

\* ------------------------------------------- the media connection (library)
\* ConnectionState of @webex/internal-media-core, as far as the wait tells
\* its values apart: Connected, and two states that are not.
ConnectionStates == {"New", "Connected", "Failed"}

\* this.webrtcMediaConnection.getConnectionState() === ConnectionState.Connected
\* over the connection states `cs`. On a null handle the read throws a
\* TypeError: the callers below test the handle first.
isConnected(cs) == cs[webrtcMediaConnection] = "Connected"

\* The synchronous body of waitForMediaConnectionConnected for call w.
waitStart(w) ==
  IF webrtcMediaConnection = Null THEN
    \* null.getConnectionState(): the call throws, no promise is returned
    /\ promise' = [promise EXCEPT ![w] = "threw"]
    /\ UNCHANGED <<timer, listeners, observedConnected>>
  ELSE IF isConnected(connectionState) THEN
    /\ promise' = [promise EXCEPT ![w] = "resolved"]
    /\ observedConnected' = [observedConnected EXCEPT ![w] = TRUE]
    /\ UNCHANGED <<timer, listeners>>
  ELSE
    /\ promise' = [promise EXCEPT ![w] = "pending"]
    /\ timer' = [timer EXCEPT ![w] = "armed"]
    /\ listeners' = [listeners EXCEPT ![webrtcMediaConnection] = @ \cup {w}]
    /\ UNCHANGED observedConnected

\* Calls are numbered in the order they are made.
IsNextCall(w) == kind[w] = "none" /\ (IF w = 1 THEN TRUE ELSE kind[w - 1] # "none")

waitForMediaConnectionConnected(w) ==
  /\ IsNextCall(w)
  /\ kind' = [kind EXCEPT ![w] = "wait"]
  /\ waitStart(w)
  /\ UNCHANGED <<attrVars, connectionState, pc, result, allStatsReports,
                 statsOutcome, lastOp>>

\* timer = setTimeout(() => { this.webrtcMediaConnection.off(...); reject(); })
\* The async caller of a rejected wait rejects in the microtask that follows.
timerFires(w) ==
  /\ timer[w] = "armed"
  /\ timer' = [timer EXCEPT ![w] = "fired"]
  /\ IF webrtcMediaConnection = Null THEN
       \* .off of null throws before reject() is reached
       UNCHANGED <<listeners, promise, pc, result>>
     ELSE
       /\ listeners' = [listeners EXCEPT ![webrtcMediaConnection] = @ \ {w}]
       /\ promise' = [promise EXCEPT ![w] = "rejected"]
       /\ IF kind[w] = "type"
            THEN /\ pc' = [pc EXCEPT ![w] = "done"]
                 /\ result' = [result EXCEPT ![w] = "rejected"]
            ELSE UNCHANGED <<pc, result>>
  /\ UNCHANGED <<attrVars, connectionState, kind, allStatsReports,
                 statsOutcome, observedConnected, lastOp>>

\* connectionStateListener: does it reach resolve() with the states `cs`?
\* (the log line throws on a null handle)
listenerResolves(cs) ==
  /\ webrtcMediaConnection # Null
  /\ isConnected(cs)

\* Connection c changes state to s and emits CONNECTION_STATE_CHANGED to the
\* listeners registered on it. Every listener reads the state of the handle
\* MediaProperties holds now, which need not be c.
connectionStateChanged(c, s) ==
  /\ s # connectionState[c]
  /\ connectionState' = [connectionState EXCEPT ![c] = s]
  /\ observedConnected' = [w \in Calls |->
       \/ observedConnected[w]
       \/ /\ w \in listeners[c]
          /\ webrtcMediaConnection # Null
          /\ connectionState'[webrtcMediaConnection] = "Connected"]
  /\ IF listeners[c] # {} /\ listenerResolves(connectionState') THEN
       \* clearTimeout(timer); this.webrtcMediaConnection.off(...); resolve()
       /\ timer' = [w \in Calls |->
            IF w \in listeners[c] /\ timer[w] = "armed" THEN "cleared" ELSE timer[w]]
       /\ listeners' = [listeners EXCEPT ![webrtcMediaConnection] = @ \ listeners[c]]
       /\ promise' = [w \in Calls |->
            IF w \in listeners[c] /\ promise[w] = "pending" THEN "resolved" ELSE promise[w]]
     ELSE UNCHANGED <<timer, listeners, promise>>
  /\ UNCHANGED <<attrVars, kind, pc, result, allStatsReports, statsOutcome, lastOp>>

\* ------------------------------------------------ getCurrentConnectionType
\* String.prototype.toUpperCase / toLowerCase on the strings the reports carry.
ToUpperCase(s) ==
  CASE s \in {"udp", "Udp", "UDP"} -> "UDP"
    [] s \in {"tcp", "Tcp", "TCP"} -> "TCP"
    [] s \in {"tls", "TLS"} -> "TLS"
    [] s \in {"sctp", "SCTP"} -> "SCTP"
    [] s \in {"succeeded", "Succeeded", "SUCCEEDED"} -> "SUCCEEDED"
    [] s \in {"failed", "FAILED"} -> "FAILED"
    [] s = "" -> ""

ToLowerCase(s) ==
  CASE s \in {"udp", "Udp", "UDP"} -> "udp"
    [] s \in {"tcp", "Tcp", "TCP"} -> "tcp"
    [] s \in {"tls", "TLS"} -> "tls"
    [] s \in {"sctp", "SCTP"} -> "sctp"
    [] s \in {"succeeded", "Succeeded", "SUCCEEDED"} -> "succeeded"
    [] s \in {"failed", "FAILED"} -> "failed"
    [] s = "" -> ""

\* report.type === 'candidate-pair' && report.state?.toLowerCase() === 'succeeded'
isSuccessfulCandidatePair(report) ==
  /\ report.type = "candidate-pair"
  /\ report.state # Undefined
  /\ ToLowerCase(report.state) = "succeeded"

successfulCandidatePairs(reports) == SelectSeq(reports, isSuccessfulCandidatePair)

\* allStatsReports.find(report => report.type === 'local-candidate' &&
\*                                report.id === pair.localCandidateId)
\* as the list of the matching reports: find() returns its head, and
\* undefined when it is empty.
findLocalCandidate(reports, pair) ==
  LET matches(report) ==
        /\ report.type = "local-candidate"
        /\ report.id = pair.localCandidateId
  IN SelectSeq(reports, matches)

\* The connection type read off a local candidate (undefined or "" when none).
connectionTypeOf(localCandidate) ==
  IF Truthy(localCandidate.relayProtocol)
    THEN "TURN-" \o ToUpperCase(localCandidate.relayProtocol)
  ELSE IF localCandidate.protocol = Undefined THEN Undefined
  ELSE ToUpperCase(localCandidate.protocol)

\* successfulCandidatePairs.some(...): the type of the first pair that has one.
RECURSIVE firstConnectionType(_, _)
firstConnectionType(pairs, reports) ==
  IF pairs = <<>> THEN "unknown"
  ELSE LET found == findLocalCandidate(reports, Head(pairs))
       IN IF found = <<>>   \* localCandidate === undefined
            THEN firstConnectionType(Tail(pairs), reports)
          ELSE IF Truthy(connectionTypeOf(Head(found)))
            THEN connectionTypeOf(Head(found))
          ELSE firstConnectionType(Tail(pairs), reports)

foundConnectionType(reports) ==
  firstConnectionType(successfulCandidatePairs(reports), reports)

\* The call of the async function: it runs to its first await.
getCurrentConnectionType(w) ==
  /\ IsNextCall(w)
  /\ kind' = [kind EXCEPT ![w] = "type"]
  /\ waitStart(w)
  /\ IF webrtcMediaConnection = Null
       THEN /\ pc' = [pc EXCEPT ![w] = "done"]
            /\ result' = [result EXCEPT ![w] = "rejected"]
       ELSE /\ pc' = [pc EXCEPT ![w] = "awaitWait"]
            /\ UNCHANGED result
  /\ UNCHANGED <<attrVars, connectionState, allStatsReports, statsOutcome, lastOp>>

\* The continuation after `await this.waitForMediaConnectionConnected()`
\* resolved: getStats() is called inside the try; on a null handle the
\* TypeError is caught and the classification runs on no reports.
typeContinues(w) ==
  /\ kind[w] = "type" /\ pc[w] = "awaitWait" /\ promise[w] = "resolved"
  /\ IF webrtcMediaConnection = Null
       THEN /\ statsOutcome' = [statsOutcome EXCEPT ![w] = "threw"]
            /\ result' = [result EXCEPT ![w] = foundConnectionType(<<>>)]
            /\ pc' = [pc EXCEPT ![w] = "done"]
       ELSE /\ statsOutcome' = [statsOutcome EXCEPT ![w] = "invoked"]
            /\ pc' = [pc EXCEPT ![w] = "awaitStats"]
            /\ UNCHANGED result
  /\ UNCHANGED <<attrVars, connVars, kind, promise, timer, allStatsReports,
                 observedConnected, lastOp>>

\* getStats() settling without the try/catch: its rejection becomes the call's.
getStatsSettles_NoCatch(w, outcome) ==
  /\ pc[w] = "awaitStats"
  /\ statsOutcome' = [statsOutcome EXCEPT ![w] =
       IF outcome.ok THEN "resolved" ELSE "rejected"]
  /\ allStatsReports' = [allStatsReports EXCEPT ![w] =
       IF outcome.ok THEN outcome.reports ELSE <<>>]
  /\ result' = [result EXCEPT ![w] =
       IF outcome.ok THEN foundConnectionType(outcome.reports) ELSE "rejected"]
  /\ pc' = [pc EXCEPT ![w] = "done"]
  /\ UNCHANGED <<attrVars, connVars, kind, promise, timer, observedConnected, lastOp>>

\* getStats() settles: resolved, its reports are pushed to allStatsReports;
\* rejected, the catch logs and allStatsReports stays empty. The rest of the
\* function is synchronous.
getStatsSettles(w, outcome) ==
  /\ pc[w] = "awaitStats"
  /\ statsOutcome' = [statsOutcome EXCEPT ![w] =
       IF outcome.ok THEN "resolved" ELSE "rejected"]
  /\ allStatsReports' = [allStatsReports EXCEPT ![w] =
       IF outcome.ok THEN outcome.reports ELSE <<>>]
  /\ result' = [result EXCEPT ![w] = foundConnectionType(allStatsReports'[w])]
  /\ pc' = [pc EXCEPT ![w] = "done"]
  /\ UNCHANGED <<attrVars, connVars, kind, promise, timer, observedConnected, lastOp>>

\* ------------------------------------------------------- getStats() inputs
Pair(state, localCandidateId) ==
  [type |-> "candidate-pair", id |-> "pair", state |-> state,
   localCandidateId |-> localCandidateId,
   protocol |-> Undefined, relayProtocol |-> Undefined]

Candidate(type, id, protocol, relayProtocol) ==
  [type |-> type, id |-> id, state |-> Undefined,
   localCandidateId |-> Undefined,
   protocol |-> protocol, relayProtocol |-> relayProtocol]

ReportPool ==
  {Pair("succeeded", "c1"), Pair("SUCCEEDED", "c2"), Pair("failed", "c1"),
   Pair(Undefined, "c1"),
   Candidate("local-candidate", "c1", "udp", Undefined),
   Candidate("local-candidate", "c1", "TCP", Undefined),
   Candidate("local-candidate", "c1", "sctp", Undefined),
   Candidate("local-candidate", "c1", "", ""),
   Candidate("local-candidate", "c1", Undefined, Undefined),
   Candidate("local-candidate", "c1", "udp", "tls"),
   Candidate("local-candidate", "c1", "udp", "sctp"),
   Candidate("local-candidate", "c1", Undefined, "tcp"),
   Candidate("local-candidate", "c2", "tcp", "udp"),
   Candidate("remote-candidate", "c1", "tcp", Undefined)}

ReportLists == UNION {[1..n -> ReportPool] : n \in 0..MaxReports}

StatsOutcomes ==
  {[ok |-> FALSE, reports |-> <<>>]} \cup {[ok |-> TRUE, reports |-> r] : r \in ReportLists}

\* The outcomes the interleaving specification draws from.
SomeStatsOutcomes ==
  {[ok |-> FALSE, reports |-> <<>>],
   [ok |-> TRUE, reports |-> <<>>],
   [ok |-> TRUE, reports |->
      <<Pair("succeeded", "c1"), Candidate("local-candidate", "c1", "udp", "sctp")>>]}

\* ---------------------------------------------------------- specifications
\* The wait and the connection type under every interleaving with the
\* connection's events, the timers and the two operations on the handle.
Next ==
  \/ \E c \in Conns : setMediaPeerConnection(c)
  \/ unsetPeerConnection
  \/ \E c \in Conns, s \in ConnectionStates : connectionStateChanged(c, s)
  \/ \E w \in Calls : waitForMediaConnectionConnected(w)
  \/ \E w \in Calls : getCurrentConnectionType(w)
  \/ \E w \in Calls : timerFires(w)
  \/ \E w \in Calls : typeContinues(w)
  \/ \E w \in Calls, o \in SomeStatsOutcomes : getStatsSettles(w, o)

Spec == Init /\ [][Next]_vars

\* One call of getCurrentConnectionType on one connection, over every
\* getStats() outcome.
NextStats ==
  \/ setMediaPeerConnection("conn1")
  \/ unsetPeerConnection
  \/ \E s \in ConnectionStates : connectionStateChanged("conn1", s)
  \/ getCurrentConnectionType(1)
  \/ timerFires(1)
  \/ typeContinues(1)
  \/ \E o \in StatsOutcomes : getStatsSettles(1, o)

SpecStats == Init /\ [][NextStats]_vars

\* ================================================================== claims
IsSet(stream) == stream \in Streams

\* C1: waitForMediaConnectionConnected is a bounded wait: once the
\* PC_BAIL_TIMEOUT timer of a call has fired, the promise the call returned is
\* settled, and rejected (the timer fired before any resolving event); a
\* cleared timer means the promise was resolved. This under every interleaving
\* with setMediaPeerConnection, unsetPeerConnection and the connection's events.
C1_BoundedWait ==
  \A w \in Calls :
    /\ timer[w] = "fired" => promise[w] = "rejected"
    /\ timer[w] = "cleared" => promise[w] = "resolved"

\* C2: right after unsetRemoteStreams, the remote audio stream, the remote
\* video stream and the remote share stream kept in remoteShare are all cleared.
C2_UnsetRemoteStreamsClearsAll ==
  lastOp = "unsetRemoteStreams" =>
    /\ ~IsSet(remoteAudioStream)
    /\ ~IsSet(remoteVideoStream)
    /\ ~IsSet(remoteShare)

ConnectionTypes == {"UDP", "TCP", "TURN-TLS", "TURN-TCP", "TURN-UDP", "unknown"}

\* C3: whenever getCurrentConnectionType resolves, its value is one of 'UDP',
\* 'TCP', 'TURN-TLS', 'TURN-TCP', 'TURN-UDP' and 'unknown', whatever reports
\* getStats() supplied.
C3_ConnectionTypeInRange ==
  \A w \in Calls :
    (kind[w] = "type" /\ pc[w] = "done" /\ result[w] # "rejected")
      => result[w] \in ConnectionTypes

OtherStreamSetters ==
  {"setLocalVideoStream", "setLocalAudioStream", "setRemoteAudioStream",
   "setRemoteVideoStream", "setRemoteShare", "unsetRemoteMedia",
   "unsetRemoteShareStream", "unsetRemoteStreams"}

\* C4: hasLocalShareStream is true exactly when the local share video stream
\* or the local share audio stream is set; it is false right after
\* construction, and the camera, microphone and remote stream setters do not
\* change it.
C4_HasLocalShareStream ==
  /\ [](hasLocalShareStream <=> (IsSet(shareVideoStream) \/ IsSet(shareAudioStream)))
  /\ [](lastOp = "constructor" => ~hasLocalShareStream)
  /\ [][lastOp' \in OtherStreamSetters =>
          (hasLocalShareStream' <=> hasLocalShareStream)]_vars

\* C4's case: the share video stream was just set to undefined while the
\* share audio stream is set, and hasLocalShareStream answers true.
C4_Witness ==
  /\ lastOp = "setLocalShareVideoStream"
  /\ shareVideoStream = Undefined
  /\ IsSet(shareAudioStream)
  /\ hasLocalShareStream

\* The attributes an operation of the claim names.
NamedBy ==
  [setMediaDirection |-> {"mediaDirection"},
   setMediaPeerConnection |-> {"webrtcMediaConnection"},
   setLocalVideoStream |-> {"videoStream"},
   setLocalAudioStream |-> {"audioStream"},
   setLocalShareVideoStream |-> {"shareVideoStream"},
   setLocalShareAudioStream |-> {"shareAudioStream"},
   setRemoteAudioStream |-> {"remoteAudioStream"},
   setRemoteVideoStream |-> {"remoteVideoStream"},
   setRemoteShare |-> {"remoteShare"},
   setRemoteQualityLevel |-> {"remoteQualityLevel"},
   setVideoDeviceId |-> {"videoDeviceId"},
   unsetPeerConnection |-> {"webrtcMediaConnection"},
   unsetRemoteMedia |-> {"remoteAudioStream", "remoteVideoStream"}]

\* The names of the attributes a step changes.
ChangedAttributes ==
  {a \in {"audioStream", "mediaDirection", "mediaSettings",
          "webrtcMediaConnection", "remoteAudioStream", "remoteQualityLevel",
          "remoteShare", "remoteVideoStream", "shareVideoStream",
          "shareAudioStream", "videoDeviceId", "videoStream",
          "remoteShareStream"} :
     CASE a = "audioStream" -> audioStream' # audioStream
       [] a = "mediaDirection" -> mediaDirection' # mediaDirection
       [] a = "mediaSettings" -> mediaSettings' # mediaSettings
       [] a = "webrtcMediaConnection" -> webrtcMediaConnection' # webrtcMediaConnection
       [] a = "remoteAudioStream" -> remoteAudioStream' # remoteAudioStream
       [] a = "remoteQualityLevel" -> remoteQualityLevel' # remoteQualityLevel
       [] a = "remoteShare" -> remoteShare' # remoteShare
       [] a = "remoteVideoStream" -> remoteVideoStream' # remoteVideoStream
       [] a = "shareVideoStream" -> shareVideoStream' # shareVideoStream
       [] a = "shareAudioStream" -> shareAudioStream' # shareAudioStream
       [] a = "videoDeviceId" -> videoDeviceId' # videoDeviceId
       [] a = "videoStream" -> videoStream' # videoStream
       [] a = "remoteShareStream" -> remoteShareStream' # remoteShareStream}

\* C5: each setter or unsetter changes only the attributes it names; in
\* particular unsetRemoteMedia clears remote audio and video and leaves the
\* rest, and a contradictory media direction is stored as given and changed by
\* nothing but setMediaDirection.
C5_IndependentAttributes ==
  [][lastOp' \in DOMAIN NamedBy =>
       /\ ChangedAttributes \subseteq NamedBy[lastOp']
       /\ lastOp' = "unsetRemoteMedia" =>
            remoteAudioStream' = Null /\ remoteVideoStream' = Null]_vars

\* C5's case: unsetRemoteMedia has just run on a state with a remote share,
\* local streams, a connection handle and a contradictory direction, which
\* are all still there.
C5_Witness ==
  /\ lastOp = "unsetRemoteMedia"
  /\ remoteAudioStream = Null /\ remoteVideoStream = Null
  /\ IsSet(remoteShare)
  /\ IsSet(videoStream) /\ IsSet(shareAudioStream)
  /\ mediaDirection = ContradictoryDirection
  /\ webrtcMediaConnection \in Conns

GetStatsInvoked(w) == statsOutcome[w] \in {"invoked", "resolved", "rejected"}

\* C6: getStats() is invoked by a call only after that call observed the
\* connection Connected, and a call whose PC_BAIL_TIMEOUT timer fired (the
\* wait timed out) has rejected and has not invoked getStats().
C6_StatsOnlyAfterConnected ==
  \A w \in Calls :
    /\ GetStatsInvoked(w) => observedConnected[w]
    /\ (kind[w] = "type" /\ timer[w] = "fired") =>
         (result[w] = "rejected" /\ ~GetStatsInvoked(w))

\* The first half of C6 alone: no getStats() before Connected was observed,
\* and none by a call whose wait rejected.
C6_NoStatsBeforeConnected ==
  \A w \in Calls :
    /\ statsOutcome[w] # "none" => observedConnected[w]
    /\ promise[w] = "rejected" => statsOutcome[w] = "none"

SucceededPair(report) ==
  /\ report.type = "candidate-pair"
  /\ report.state \in {"succeeded", "Succeeded", "SUCCEEDED"}

\* A local candidate matching the pair that carries a protocol value (its
\* relayProtocol or its protocol).
MatchingCandidateWithProtocol(reports, pair) ==
  \E i \in 1..Len(reports) :
    /\ reports[i].type = "local-candidate"
    /\ reports[i].id = pair.localCandidateId
    /\ (Truthy(reports[i].relayProtocol) \/ Truthy(reports[i].protocol))

\* C7: once the wait resolved (the connection was Connected), the call does
\* not reject; it resolves with 'unknown' when getStats() failed, when the
\* reports hold no succeeded candidate pair, and when no succeeded pair has a
\* matching local candidate with a protocol.
C7_BestEffort ==
  \A w \in Calls :
    (kind[w] = "type" /\ pc[w] = "done" /\ promise[w] = "resolved") =>
      /\ result[w] # "rejected"
      /\ statsOutcome[w] \in {"rejected", "threw"} => result[w] = "unknown"
      /\ (\A i \in 1..Len(allStatsReports[w]) :
            ~SucceededPair(allStatsReports[w][i])) => result[w] = "unknown"
      /\ (\A i \in 1..Len(allStatsReports[w]) :
            SucceededPair(allStatsReports[w][i]) =>
              ~MatchingCandidateWithProtocol(allStatsReports[w], allStatsReports[w][i]))
           => result[w] = "unknown"

\* C7's case: the connection was Connected, getStats() was invoked and
\* rejected, and the call resolved with 'unknown'.
C7_Witness ==
  \E w \in Calls :
    /\ observedConnected[w]
    /\ statsOutcome[w] = "rejected"
    /\ pc[w] = "done"
    /\ result[w] = "unknown"

\* C7's other case: a succeeded pair whose local candidate carries no
\* protocol, and the call resolved with 'unknown'.
C7_WitnessNoProtocol ==
  \E w \in Calls :
    /\ pc[w] = "done" /\ statsOutcome[w] = "resolved"
    /\ \E i \in 1..Len(allStatsReports[w]) :
         /\ SucceededPair(allStatsReports[w][i])
         /\ findLocalCandidate(allStatsReports[w], allStatsReports[w][i]) # <<>>
    /\ result[w] = "unknown"
====
